---- MODULE Spec2Model ----
(***************************************************************************)
(* Model of src/app/species/species-card.tsx: the SpeciesCard component,   *)
(* its zod validation schema (speciesSchema), its react-hook-form working  *)
(* copy, the dialog-open / edit-mode flags and the onSubmit handler with   *)
(* its awaited update request.                                             *)
(*                                                                         *)
(* Encoding of JavaScript values:                                          *)
(*   text            a sequence of one-character strings                   *)
(*   null | value    Null == <<>>, Some(v) == <<v>>                        *)
(*   number          an integer count of tenths (1.5 is 15, 2 is 20)       *)
(*                                                                         *)
(* The props (species, sessionId) stay as given for the life of the        *)
(* component instance.  The working copy is held by useForm at component   *)
(* level with shouldUnregister left at its default, so it outlives the     *)
(* unmounting of the inputs when the dialog closes; toast and refresh      *)
(* calls are recorded by their number and the latest argument.             *)
(***************************************************************************)
EXTENDS Integers, Sequences, FiniteSets, TLC

\* ---------------------------------------------------------------- bounds
MaxLen == 2        \* longest text typed into a text input
MaxUrlLen == 3     \* longest text typed into the image input
MaxPop == 2        \* largest whole part typed into the number input
MaxEdits == 1      \* field edits per behaviour
MaxOps == 2        \* form interactions (edits and submit activations) per behaviour

\* ---------------------------------------------------------------- values
Null == <<>>
Some(v) == <<v>>
IsNull(o) == o = Null
Val(o) == o[1]

Tenths == 10

Chars == {" ", "a"}
UrlChars == {" ", "a", ":"}

Strs(alphabet, n) == UNION {[1..k -> alphabet] : k \in 0..n}

kingdoms == {"Animalia", "Plantae", "Fungi", "Protista", "Archaea", "Bacteria"}

EditableFields ==
  {"scientific_name", "common_name", "kingdom", "total_population", "description", "image"}

\* ------------------------------------------------- String.prototype.trim
RECURSIVE TrimStart(_)
TrimStart(s) ==
  IF s = <<>> THEN <<>>
  ELSE IF Head(s) = " " THEN TrimStart(Tail(s)) ELSE s

RECURSIVE TrimEnd(_)
TrimEnd(s) ==
  IF s = <<>> THEN <<>>
  ELSE IF s[Len(s)] = " " THEN TrimEnd(SubSeq(s, 1, Len(s) - 1)) ELSE s

Trim(s) == TrimEnd(TrimStart(s))

\* ------------------------------------------------------ zod string().url()
\* new URL(s): surrounding spaces are stripped, then a scheme of letters
\* followed by ":" is required (no base URL is given).
IsUrl(s) ==
  LET t == Trim(s)
  IN \E i \in 2..Len(t) : t[i] = ":" /\ \A j \in 1..(i - 1) : t[j] = "a"

\* ---------------------------------------------------- number input value
\* The DOM value of <input type="number">: "" or a decimal literal with a
\* whole part and at most one fractional digit ("2", "2.0", "2.5", "-1").
NumberTexts == [empty : {FALSE}, whole : -1..MaxPop, frac : {<<>>, <<0>>, <<5>>}]
EmptyText == [empty |-> TRUE, whole |-> 0, frac |-> <<>>]
NumberInputs == NumberTexts \cup {EmptyText}

\* Number(value), in tenths; Number("") is 0
Number(t) ==
  LET f == IF t.frac = <<>> THEN 0 ELSE t.frac[1]
  IN IF t.empty THEN 0
     ELSE IF t.whole < 0 THEN t.whole * Tenths - f ELSE t.whole * Tenths + f

\* faulty variant: Number(value) without the "" case
setValueAsNumber(value) == Some(Number(value))
\* setValueAs of register("total_population")
setValueAs(value) == IF value = EmptyText THEN Null ELSE Some(Number(value))

\* what the number input shows for a default value
numberText(val) ==
  IF IsNull(val) THEN EmptyText
  ELSE [empty |-> FALSE, whole |-> Val(val) \div Tenths, frac |-> <<>>]

IsInteger(n) == n % Tenths = 0

\* --------------------------------------------------------- speciesSchema
\* Each field parser yields [ok, value]: ok is the validation verdict and
\* value the parsed (transformed) output handed to onSubmit.
NullIfBlank(val) ==
  IF IsNull(val) \/ Val(val) = <<>> \/ Trim(Val(val)) = <<>>
  THEN Null ELSE Some(Trim(Val(val)))

\* faulty variant: min(1) applied to the untrimmed text
parse_scientific_name_untrimmed(val) ==
  [ok |-> Len(val) >= 1, value |-> Trim(val)]

parse_scientific_name(val) ==
  [ok |-> Len(Trim(val)) >= 1, value |-> Trim(Trim(val))]

parse_common_name(val) ==
  [ok |-> TRUE, value |-> NullIfBlank(val)]

parse_kingdom(val) ==
  [ok |-> val \in kingdoms, value |-> val]

parse_total_population(val) ==
  [ok |-> IsNull(val) \/ (IsInteger(Val(val)) /\ Val(val) > 0 /\ Val(val) >= 1 * Tenths),
   value |-> val]

parse_image(val) ==
  [ok |-> IsNull(val) \/ IsUrl(Val(val)), value |-> NullIfBlank(val)]

parse_description(val) ==
  [ok |-> TRUE, value |-> NullIfBlank(val)]

parseField(f, val) ==
  CASE f = "scientific_name" -> parse_scientific_name(val)
    [] f = "common_name" -> parse_common_name(val)
    [] f = "kingdom" -> parse_kingdom(val)
    [] f = "total_population" -> parse_total_population(val)
    [] f = "image" -> parse_image(val)
    [] f = "description" -> parse_description(val)

\* zodResolver(speciesSchema): the fields in error and the parsed output
InvalidFields(values) == {f \in EditableFields : ~parseField(f, values[f]).ok}
Parsed(values) == [f \in EditableFields |-> parseField(f, values[f]).value]

\* ------------------------------------------------------------ the props
\* Rows of the species table as the page hands them to the card.
SampleSpecies ==
  { [id |-> 1, author |-> "u1",
     scientific_name |-> <<"a">>, common_name |-> Null, kingdom |-> "Animalia",
     total_population |-> Null, description |-> Null, image |-> Null],
    [id |-> 2, author |-> "u1",
     scientific_name |-> <<"a", "a">>, common_name |-> Some(<<"a">>), kingdom |-> "Fungi",
     total_population |-> Some(2 * Tenths), description |-> Some(<<"a", " ">>),
     image |-> Some(<<"a", ":">>)] }

Sessions == {"u1", "u2"}

ErrorMessages == {"duplicate key", "timeout"}

\* ------------------------------------------------------------ the state
VARIABLES
  species,      \* prop: the record
  sessionId,    \* prop: the viewer
  dialogOpen,   \* useState(false)
  isEditing,    \* useState(false)
  formValues,   \* react-hook-form working copy
  errors,       \* react-hook-form formState.errors (fields shown in error)
  submitCount,  \* react-hook-form formState.submitCount
  populationInput, \* DOM value of the total_population input
  edits,        \* number of field edits so far
  inflight,     \* update requests awaiting their response
  lastResponse, \* the latest { error } the awaited update call resolved with
  toastCalls,   \* number of toast(...) calls
  lastToast,    \* argument of the latest toast(...) call
  refreshes     \* number of router.refresh() calls

vars == <<species, sessionId, dialogOpen, isEditing, formValues, errors,
          submitCount, populationInput, edits, inflight, lastResponse, toastCalls, lastToast,
          refreshes>>

defaultValues(s) == [f \in EditableFields |-> s[f]]

Init ==
  /\ species \in SampleSpecies
  /\ sessionId \in Sessions
  /\ dialogOpen = FALSE
  /\ isEditing = FALSE
  /\ formValues = defaultValues(species)
  /\ errors = {}
  /\ submitCount = 0
  /\ populationInput = numberText(species.total_population)
  /\ edits = 0
  /\ inflight = {}
  /\ lastResponse = Null
  /\ toastCalls = 0
  /\ lastToast = Null
  /\ refreshes = 0

\* ------------------------------------------------------- what is rendered
FormRendered == dialogOpen /\ isEditing
\* faulty variant: the author comparison left out
EditOfferedToAll == dialogOpen /\ ~isEditing
EditOffered == dialogOpen /\ species.author = sessionId /\ ~isEditing

\* ------------------------------------------------------------- handlers
\* faulty variant: setIsEditing(false) left out
LearnMoreKeepMode ==
  /\ ~dialogOpen
  /\ dialogOpen' = TRUE
  /\ UNCHANGED <<species, sessionId, isEditing, formValues, errors, submitCount,
                 populationInput, edits, inflight, lastResponse, toastCalls,
                 lastToast, refreshes>>

\* "Learn More" onClick; the button lies behind the modal dialog while it is open
LearnMore ==
  /\ ~dialogOpen
  /\ dialogOpen' = TRUE
  /\ isEditing' = FALSE
  /\ UNCHANGED <<species, sessionId, formValues, errors, submitCount, populationInput, edits,
                 inflight, lastResponse, toastCalls, lastToast, refreshes>>

\* Dialog onOpenChange(false): escape, overlay click or the close button
Dismiss ==
  /\ dialogOpen
  /\ dialogOpen' = FALSE
  /\ UNCHANGED <<species, sessionId, isEditing, formValues, errors, submitCount,
                 populationInput, edits, inflight, lastResponse, toastCalls, lastToast, refreshes>>

\* "Edit" onClick
Edit ==
  /\ EditOffered
  /\ isEditing' = TRUE
  /\ UNCHANGED <<species, sessionId, dialogOpen, formValues, errors, submitCount,
                 populationInput, edits, inflight, lastResponse, toastCalls, lastToast, refreshes>>

\* form.setValue(f, v): the working copy takes the value; no validation is run
setValue(f, v) ==
  /\ FormRendered
  /\ edits < MaxEdits
  /\ edits + submitCount < MaxOps
  /\ formValues' = [formValues EXCEPT ![f] = v]
  /\ edits' = edits + 1
  /\ UNCHANGED <<species, sessionId, dialogOpen, isEditing, submitCount,
                 inflight, lastResponse, toastCalls, lastToast, refreshes>>

\* onChange of a registered input (mode "onChange": the resolver runs and the
\* error of the changed field is updated)
setField(f, v) ==
  /\ setValue(f, v)
  /\ errors' = (errors \ {f}) \cup ({f} \cap InvalidFields(formValues'))

\* <Input {...form.register("scientific_name")} />
ChangeScientificName ==
  \E s \in Strs(Chars, MaxLen) :
    setField("scientific_name", s) /\ UNCHANGED populationInput

\* <Input {...form.register("common_name")} />
ChangeCommonName ==
  \E s \in Strs(Chars, MaxLen) :
    setField("common_name", Some(s)) /\ UNCHANGED populationInput

\* Select onValueChange: form.setValue("kingdom", value)
ChangeKingdom ==
  \E k \in kingdoms :
    setValue("kingdom", k) /\ UNCHANGED <<errors, populationInput>>

\* <Input type="number" {...form.register("total_population", { setValueAs })} />
ChangeTotalPopulation ==
  \E t \in NumberInputs :
    setField("total_population", setValueAs(t)) /\ populationInput' = t

\* <Input {...form.register("image")} />
ChangeImage ==
  \E s \in Strs(UrlChars, MaxUrlLen) :
    setField("image", Some(s)) /\ UNCHANGED populationInput

\* <Textarea {...form.register("description")} />
ChangeDescription ==
  \E s \in Strs(Chars, MaxLen) :
    setField("description", Some(s)) /\ UNCHANGED populationInput

\* faulty variant: the whole record, id and author included, is sent
updateRequestWholeRecord(input, n) ==
  [n |-> n,
   eq_id |-> species.id,
   payload |-> [id |-> species.id,
                author |-> species.author,
                scientific_name |-> input.scientific_name,
                common_name |-> input.common_name,
                kingdom |-> input.kingdom,
                total_population |-> input.total_population,
                description |-> input.description,
                image |-> input.image]]

\* The update request built by onSubmit
updateRequest(input, n) ==
  [n |-> n,
   eq_id |-> species.id,
   payload |-> [scientific_name |-> input.scientific_name,
                common_name |-> input.common_name,
                kingdom |-> input.kingdom,
                total_population |-> input.total_population,
                description |-> input.description,
                image |-> input.image]]

\* form.handleSubmit(onSubmit), validation passed: onSubmit runs up to its await
SubmitValid ==
  /\ FormRendered
  /\ edits + submitCount < MaxOps
  /\ InvalidFields(formValues) = {}
  /\ errors' = {}
  /\ submitCount' = submitCount + 1
  /\ inflight' = inflight \cup {updateRequest(Parsed(formValues), submitCount + 1)}
  /\ UNCHANGED <<species, sessionId, dialogOpen, isEditing, formValues, populationInput, edits,
                 lastResponse, toastCalls, lastToast, refreshes>>

\* form.handleSubmit(onSubmit), validation failed: onSubmit is not called
SubmitInvalid ==
  /\ FormRendered
  /\ edits + submitCount < MaxOps
  /\ InvalidFields(formValues) # {}
  /\ errors' = InvalidFields(formValues)
  /\ submitCount' = submitCount + 1
  /\ UNCHANGED <<species, sessionId, dialogOpen, isEditing, formValues, populationInput, edits,
                 inflight, lastResponse, toastCalls, lastToast, refreshes>>

\* faulty variant: a fixed text instead of error.message
destructiveToastFixedText(message) ==
  [title |-> "Something went wrong.", description |-> "Something went wrong.",
   variant |-> "destructive"]

destructiveToast(message) ==
  [title |-> "Something went wrong.", description |-> message, variant |-> "destructive"]

successToast ==
  [title |-> "Species updated!", description |-> "Changes saved successfully.",
   variant |-> "default"]

\* onSubmit resumes after the await with { error }
ResponseError ==
  \E r \in inflight, m \in ErrorMessages :
    /\ inflight' = inflight \ {r}
    /\ lastResponse' = Some([n |-> r.n, error |-> Some(m)])
    /\ toastCalls' = toastCalls + 1
    /\ lastToast' = Some(destructiveToast(m))
    /\ UNCHANGED <<species, sessionId, dialogOpen, isEditing, formValues, errors,
                   submitCount, populationInput, edits, refreshes>>

\* faulty variant: router.refresh() left out
ResponseOkNoRefresh ==
  \E r \in inflight :
    /\ inflight' = inflight \ {r}
    /\ lastResponse' = Some([n |-> r.n, error |-> Null])
    /\ dialogOpen' = FALSE
    /\ toastCalls' = toastCalls + 1
    /\ lastToast' = Some([title |-> "Species updated!",
                          description |-> "Changes saved successfully.",
                          variant |-> "default"])
    /\ UNCHANGED <<species, sessionId, isEditing, formValues, errors,
                   submitCount, populationInput, edits, refreshes>>

\* onSubmit resumes after the await with no error
ResponseOk ==
  \E r \in inflight :
    /\ inflight' = inflight \ {r}
    /\ lastResponse' = Some([n |-> r.n, error |-> Null])
    /\ dialogOpen' = FALSE
    /\ refreshes' = refreshes + 1
    /\ toastCalls' = toastCalls + 1
    /\ lastToast' = Some(successToast)
    /\ UNCHANGED <<species, sessionId, isEditing, formValues, errors,
                   submitCount, populationInput, edits>>

Next ==
  \/ LearnMore
  \/ Dismiss
  \/ Edit
  \/ ChangeScientificName
  \/ ChangeCommonName
  \/ ChangeKingdom
  \/ ChangeTotalPopulation
  \/ ChangeImage
  \/ ChangeDescription
  \/ SubmitValid
  \/ SubmitInvalid
  \/ ResponseError
  \/ ResponseOk

Spec == Init /\ [][Next]_vars

\* ============================================================ properties
\* what a step did, read off the state
NewRequests == inflight' \ inflight
ResponseStep == Cardinality(inflight') < Cardinality(inflight)
ErrorResponse == ResponseStep /\ ~IsNull(Val(lastResponse').error)
OkResponse == ResponseStep /\ IsNull(Val(lastResponse').error)
Blank(s) == Trim(s) = <<>>

\* C1: opening the dialog, entering edit mode, changing fields, dismissing
\* without submitting, reopening and entering edit mode again shows the form
\* working copy equal to the record's values: whenever edit mode is entered
\* and nothing was ever submitted, the working copy is the record's values.
C1_AbandonedEditsDiscarded ==
  [][(~isEditing /\ isEditing' /\ submitCount = 0)
       => formValues' = defaultValues(species)]_vars

\* C2: no two update requests of one component instance are ever in flight
\* at the same time.
C2_AtMostOneInFlight == Cardinality(inflight) <= 1

\* C3: for each of common_name, image and description, an input that is
\* empty or whitespace-only passes validation and is handed on as null, and
\* any other input that passes validation is handed on trimmed.
C3_BlankOptionalTextIsNull ==
  \A f \in {"common_name", "image", "description"} :
    LET v == formValues[f]
        p == parseField(f, v)
    IN ~IsNull(v) =>
         IF Blank(Val(v)) THEN p.ok /\ p.value = Null
         ELSE p.ok => p.value = Some(Trim(Val(v)))

\* C4: when the update call returns an error with message m, exactly one
\* destructive notification with description m is produced, no refresh is
\* triggered, no further request is issued, and the dialog-open flag, the
\* edit-mode flag and the working copy stay as they were.
C4_ErrorOnlyNotifies ==
  [][ErrorResponse =>
       /\ toastCalls' = toastCalls + 1
       /\ Val(lastToast').variant = "destructive"
       /\ Val(lastToast').description = Val(Val(lastResponse').error)
       /\ refreshes' = refreshes
       /\ NewRequests = {}
       /\ submitCount' = submitCount
       /\ dialogOpen' = dialogOpen
       /\ isEditing' = isEditing
       /\ formValues' = formValues]_vars

C4_Witness ==
  /\ dialogOpen /\ isEditing
  /\ toastCalls = 1
  /\ lastToast = Some([title |-> "Something went wrong.",
                       description |-> "duplicate key", variant |-> "destructive"])
  /\ refreshes = 0
  /\ inflight = {}

\* C5: when the update call returns without error, that step leaves the
\* dialog closed, triggers exactly one refresh and produces exactly one
\* notification titled "Species updated!"; no other step triggers a refresh
\* or produces that notification, and a step other than that which closes the
\* dialog is the user's dismissal and changes nothing else.
C5_SuccessEffectsAfterResponse ==
  [][/\ OkResponse =>
          /\ ~dialogOpen'
          /\ refreshes' = refreshes + 1
          /\ toastCalls' = toastCalls + 1
          /\ Val(lastToast').title = "Species updated!"
     /\ ~OkResponse =>
          /\ refreshes' = refreshes
          /\ toastCalls' # toastCalls => Val(lastToast').title # "Species updated!"
          /\ (dialogOpen /\ ~dialogOpen') =>
               UNCHANGED <<isEditing, formValues, errors, submitCount, inflight,
                           lastResponse, toastCalls, lastToast>>]_vars

C5_Witness ==
  /\ ~dialogOpen
  /\ isEditing
  /\ refreshes = 1
  /\ toastCalls = 1
  /\ Val(lastToast).title = "Species updated!"
  /\ lastResponse = Some([n |-> 1, error |-> Null])

\* C6: the dialog is in edit mode only for the record's author, and for a
\* record whose author is not the session no edit mode, no field edit, no
\* submit activation and no update request ever happens.
C6_OnlyAuthorEdits ==
  /\ isEditing => species.author = sessionId
  /\ species.author # sessionId =>
       /\ ~isEditing
       /\ ~EditOffered
       /\ edits = 0
       /\ submitCount = 0
       /\ inflight = {}
       /\ IsNull(lastResponse)
  /\ EditOffered => dialogOpen /\ ~isEditing /\ species.author = sessionId

C6_Witness ==
  /\ dialogOpen /\ isEditing
  /\ species.author = sessionId
  /\ inflight # {}

\* the shape of a value set that has passed speciesSchema
Trimmed(s) == s # <<>> /\ s[1] # " " /\ s[Len(s)] # " "
Validated(payload) ==
  /\ Trimmed(payload.scientific_name)
  /\ IsNull(payload.common_name) \/ Trimmed(Val(payload.common_name))
  /\ payload.kingdom \in kingdoms
  /\ \/ IsNull(payload.total_population)
     \/ /\ Val(payload.total_population) % Tenths = 0
        /\ Val(payload.total_population) >= Tenths
  /\ IsNull(payload.description) \/ Trimmed(Val(payload.description))
  /\ \/ IsNull(payload.image)
     \/ Trimmed(Val(payload.image)) /\ IsUrl(Val(payload.image))

\* C7: every update request is issued from a working copy that passed
\* validation, carries the validated values, filters on the record's id, and
\* its payload is exactly the six editable fields; a submit activation on a
\* valid working copy issues exactly one request and no step issues more.
C7_RequestShape ==
  [][/\ \A r \in NewRequests :
          /\ dialogOpen /\ isEditing
          /\ InvalidFields(formValues) = {}
          /\ r.eq_id = species.id
          /\ DOMAIN r.payload = EditableFields
          /\ Validated(r.payload)
          /\ \A f \in EditableFields : r.payload[f] = parseField(f, formValues[f]).value
     /\ Cardinality(NewRequests) <= 1
     /\ (submitCount' = submitCount + 1 /\ InvalidFields(formValues) = {})
          => Cardinality(NewRequests) = 1
     /\ NewRequests # {} => submitCount' = submitCount + 1]_vars

C7_Witness ==
  \E r \in inflight :
    /\ edits = 1
    /\ r.payload # defaultValues(species)
    /\ r.payload # formValues
    /\ r.payload.common_name = Null

\* the number the text of the number input stands for, in tenths
TypedNumber == Number(populationInput)

\* C8: an empty total_population input is normalized to null and passes
\* validation; a typed value that is non-positive or not an integer fails
\* validation; a typed integer >= 1 passes and is the value the update
\* request carries.
C8_PopulationState ==
  LET v == formValues.total_population
      bad == ~parseField("total_population", v).ok
  IN IF populationInput = EmptyText
     THEN v = Null /\ ~bad
     ELSE IF TypedNumber <= 0 \/ TypedNumber % Tenths # 0
     THEN bad
     ELSE ~bad /\ parseField("total_population", v).value = Some(TypedNumber)

C8_TotalPopulation ==
  [][/\ C8_PopulationState'
     /\ \A r \in NewRequests :
          r.payload.total_population =
            IF populationInput = EmptyText THEN Null ELSE Some(TypedNumber)]_vars

C8_Witness ==
  \E r \in inflight :
    /\ edits = 1
    /\ populationInput = [empty |-> FALSE, whole |-> 1, frac |-> <<0>>]
    /\ r.payload.total_population = Some(Tenths)
    /\ r.payload.total_population # species.total_population

\* C9: while the scientific name of the working copy is empty after
\* trimming, validation fails on it, a submit activation shows its error and
\* no step issues an update request.
C9_BlankScientificNameBlocks ==
  [][Blank(formValues.scientific_name) =>
       /\ "scientific_name" \in InvalidFields(formValues)
       /\ NewRequests = {}
       /\ submitCount' # submitCount => "scientific_name" \in errors']_vars

C9_Witness ==
  /\ dialogOpen /\ isEditing
  /\ formValues.scientific_name = <<" ", " ">>
  /\ formValues.image # Null
  /\ submitCount = 1
  /\ "scientific_name" \in errors
  /\ inflight = {}
  /\ IsNull(lastResponse)

\* C10: every step that takes the dialog from closed to open leaves it in
\* view mode, whatever the edit-mode flag was, and changes nothing else.
C10_OpensInViewMode ==
  [][(~dialogOpen /\ dialogOpen') =>
       /\ ~isEditing'
       /\ UNCHANGED <<formValues, errors, submitCount, inflight, lastResponse,
                      toastCalls, lastToast, refreshes>>]_vars

C10_Witness ==
  /\ dialogOpen
  /\ ~isEditing
  /\ refreshes = 1
  /\ edits = 1
  /\ formValues # defaultValues(species)

====
